---- MODULE Spec2Model ----
(***************************************************************************)
(* Model of ollama-rs src/coordinator.rs: the Coordinator that drives a    *)
(* chat with tool calls, in buffered mode (chat) and in streaming mode     *)
(* (chat_stream).                                                          *)
(*                                                                         *)
(* A ChatMessage is a record [role, content, tool_calls]; a tool call is   *)
(* the name of the called function (its arguments are passed through to    *)
(* the tool untouched and are left out).  Model options, keep_alive and    *)
(* the debug flag never influence control flow and are left out as well.   *)
(***************************************************************************)
EXTENDS Naturals, Sequences, FiniteSets, TLC

\* ---------------------------------------------------------------- bounds
MaxTools == 2          \* add_tool registrations explored
MaxCalls == 2          \* tool calls carried by one response
MaxRounds == 2         \* requests sent within one invocation
MaxInvocations == 2    \* chat invocations on one coordinator
MaxFrags == 2          \* fragments of one streamed response

\* ------------------------------------------------------------ value sets
ToolNames == {"lookup", "update"}

Last(q) == q[Len(q)]

ChatMessage(r, c, tc) == [role |-> r, content |-> c, tool_calls |-> tc]
UserMsg == ChatMessage("User", "what is x?", <<>>)
SystemMsg == ChatMessage("System", "be brief", <<>>)
ToolMsg(c) == ChatMessage("Tool", c, <<>>)
AssistantMsg(c, tc) == ChatMessage("Assistant", c, tc)

\* sequences over S of length 0..n
RECURSIVE SeqsUpTo(_, _)
SeqsUpTo(S, n) ==
    IF n = 0 THEN {<<>>}
    ELSE LET shorter == SeqsUpTo(S, n - 1)
         IN  shorter \cup {Append(q, e) : q \in {p \in shorter : Len(p) = n - 1}, e \in S}

\* histories a Coordinator may be constructed with
InitialHistories ==
    {<<>>,
     <<SystemMsg, UserMsg>>,
     <<UserMsg, AssistantMsg("", <<"lookup">>), ToolMsg("42")>>}
\* message lists a caller passes to chat / chat_stream
CallerMessages == {<<UserMsg>>, <<ToolMsg("note")>>}
\* whole answers of the service (buffered mode)
FinalContents == {"x is 42"}
ServiceReplies ==
    {[message |-> AssistantMsg(c, <<>>)] : c \in FinalContents}
    \cup {[message |-> AssistantMsg("", tc)] : tc \in SeqsUpTo(ToolNames, MaxCalls) \ {<<>>}}

\* fragments of a streamed answer
Pieces == {"x is ", "42"}
Fragments ==
    {[message |-> AssistantMsg(c, <<>>), done |-> d] : c \in Pieces, d \in BOOLEAN}
    \cup {[message |-> AssistantMsg("", <<n>>), done |-> d] : n \in ToolNames, d \in BOOLEAN}

NoResult == [kind |-> "None"]
NoBuffered == [result |-> NoResult]
NoResponse == [message |-> AssistantMsg("", <<>>)]
OkResult(r) == [kind |-> "Ok", resp |-> r]
ErrResult(e) == [kind |-> "Err", error |-> e]

\* the three kinds of failure; a tool's own error names the tool
TransportError == [kind |-> "Transport"]
UnknownToolName == [kind |-> "UnknownToolName"]
\* variant: the wrapped cause is dropped
InternalToolError_lost(inner) == [kind |-> "InternalToolError", inner |-> ""]
InternalToolError(inner) == [kind |-> "InternalToolError", inner |-> inner]
ToolFailure(name) == name \o " failed"

\* ----------------------------------------------------------------- state
VARIABLES
    tool_infos,    \* Coordinator.tool_infos: descriptor names, in registration order
    tools,         \* Coordinator.tools: keys of the name-keyed registry
    format,        \* Coordinator.format is Some(_)
    history,       \* Coordinator.history
    x,             \* the value the registered tools read and write
    pc,            \* position of the running invocation
    request,       \* the request built last
    resp,          \* the response received last
    calls,         \* tool calls of the round not yet started
    current,       \* the tool call being executed
    result,        \* what the last chat invocation returned
    sent,          \* requests sent in this invocation, with the history each was built from
    received,      \* responses received in this invocation
    hist0,         \* history when the invocation started
    args,          \* messages the caller passed
    roundHist,     \* history right after the round's assistant message
    roundX,        \* x when the round's dispatch started
    invocations,   \* invocations started so far
    shared,        \* chat_stream: the Arc<Mutex<C>> clone of the history
    lock,          \* chat_stream: holder of the history mutex
    frags,         \* chat_stream: fragments the transport produced in this round
    tool_calls,    \* chat_stream: accumulator of the round
    item,          \* chat_stream: the fragment being yielded
    out,           \* chat_stream: items the consumer got from the output sequence
    produced,      \* chat_stream: fragments the transport produced in all rounds
    consumer,      \* chat_stream: whether the consumer still polls the output sequence
    buffered       \* outcome of the buffered run that a streamed run repeats

chatVars == <<pc, request, resp, calls, current, result, sent, received, hist0, args,
              roundHist, roundX, invocations>>
streamVars == <<shared, lock, frags, tool_calls, item, out, produced, consumer, buffered>>
vars == <<tool_infos, tools, format, history, x, chatVars, streamVars>>

\* ------------------------------------------------------- request builder
\* variant: the gate looks at the messages about to be sent as well
generate_request_newmsgs(messages) ==
    [messages |-> messages,
     tools    |-> tool_infos,
     format   |-> /\ format
                  /\ IF tool_infos = <<>> THEN TRUE
                     ELSE IF history \o messages # <<>>
                          THEN Last(history \o messages).role = "Tool"
                     ELSE FALSE]

\* generate_request: the history consulted is the coordinator's own field
generate_request(messages) ==
    [messages |-> messages,
     tools    |-> tool_infos,
     format   |-> /\ format
                  /\ IF tool_infos = <<>> THEN TRUE
                     ELSE IF history # <<>> THEN Last(history).role = "Tool"
                     ELSE FALSE]

LogEntry(req) == [req |-> req, hist |-> history, shared |-> shared]

\* ------------------------------------------------------------------ tools
\* "update" writes the value, "lookup" reads it
InitialX == 42
ToStr(v) == IF v = 42 THEN "42" ELSE "43"
ToolEffect(name, v) == IF name = "update" THEN 43 ELSE v
ToolOutput(name, v) == IF name = "update" THEN "ok" ELSE ToStr(v)

\* variant: the branch on tool calls is never taken
has_tool_calls_never(r) == FALSE

\* !resp.message.tool_calls.is_empty()
has_tool_calls(r) == r.message.tool_calls # <<>>

\* variant: the calls are taken from the back
next_call_last(cs) == cs[Len(cs)]

\* `for call in ...`: the call taken by the next iteration
next_call(cs) == Head(cs)

\* variant: an unknown name is not detected
registered_any(name) == TRUE

\* self.tools.get_mut(name) is Some(tool)
registered(name) == name \in tools

\* variant: the tool result is pushed twice
push_tool_twice(h, output) == Append(Append(h, ToolMsg(output)), ToolMsg(output))

\* history.push(ChatMessage::tool(resp))
push_tool(h, output) == Append(h, ToolMsg(output))

\* variant: the outer loop never continues
keep_going_never(tc) == FALSE

\* variant: the outer loop always continues
keep_going_always(tc) == TRUE

\* let keep_going = !tool_calls.is_empty()
keep_going(tc) == tc # <<>>

\* variant: only the tool calls of the final fragment are kept
extend_from_slice_done(acc, f) == IF f.done THEN acc \o f.message.tool_calls ELSE acc

\* tool_calls.extend_from_slice(&i.message.tool_calls)
extend_from_slice(acc, f) == acc \o f.message.tool_calls

\* variant: fragments that carry tool calls are held back
yield_filtered(o, i) == IF i.message.tool_calls # <<>> THEN o ELSE Append(o, i)

\* yield i
yield(o, i) == Append(o, i)

\* the transport's history-aware send: on success the request's messages
\* and the assistant reply are appended to the history
send_chat_messages_with_history(h, req, r) == h \o req.messages \o <<r.message>>

\* --------------------------------------------------------- configuration
Init ==
    /\ tool_infos = <<>>
    /\ tools = {}
    /\ format = FALSE
    /\ history \in InitialHistories
    /\ x = InitialX
    /\ pc = "idle"
    /\ request = generate_request(<<>>)
    /\ resp = NoResponse
    /\ calls = <<>>
    /\ current = ""
    /\ result = NoResult
    /\ sent = <<>>
    /\ received = <<>>
    /\ hist0 = history
    /\ args = <<>>
    /\ roundHist = history
    /\ roundX = x
    /\ invocations = 0
    /\ shared = <<>>
    /\ lock = "free"
    /\ frags = <<>>
    /\ tool_calls = <<>>
    /\ item = [message |-> AssistantMsg("", <<>>), done |-> FALSE]
    /\ out = <<>>
    /\ produced = <<>>
    /\ consumer = "polling"
    /\ buffered = NoBuffered

\* the builder methods; they are applied before the first invocation
add_tool(name) ==
    /\ pc = "idle"
    /\ invocations = 0
    /\ Len(tool_infos) < MaxTools
    /\ tool_infos' = Append(tool_infos, name)
    /\ tools' = tools \cup {name}
    /\ UNCHANGED <<format, history, x, pc, request, resp, calls, current, result, sent,
                   received, hist0, args, roundHist, roundX, invocations,
                   streamVars>>

format_builder ==
    /\ pc = "idle"
    /\ invocations = 0
    /\ ~format
    /\ format' = TRUE
    /\ UNCHANGED <<tool_infos, tools, history, x, pc, request, resp, calls, current, result,
                   sent, received, hist0, args, roundHist, roundX, invocations,
                   streamVars>>

\* ------------------------------------------------------------------ chat
\* chat(messages): build the request and hand it to the transport
chat(messages) ==
    /\ pc = "idle"
    /\ invocations < MaxInvocations
    /\ invocations' = invocations + 1
    /\ request' = generate_request(messages)
    /\ sent' = <<LogEntry(request')>>
    /\ received' = <<>>
    /\ hist0' = history
    /\ args' = messages
    /\ result' = NoResult
    /\ pc' = "awaiting"
    /\ resp' = NoResponse
    /\ calls' = <<>>
    /\ current' = ""
    /\ roundHist' = history
    /\ roundX' = x
    /\ UNCHANGED <<tool_infos, tools, format, history, x, streamVars>>

\* send_chat_messages_with_history(..).await? is Ok(resp): branch on the
\* tool calls of the response
send_ok(r) ==
    /\ pc = "awaiting"
    /\ Len(sent) = MaxRounds => r.message.tool_calls = <<>>
    /\ history' = send_chat_messages_with_history(history, request, r)
    /\ resp' = r
    /\ received' = Append(received, r)
    /\ roundHist' = history'
    /\ roundX' = x
    /\ IF has_tool_calls(r)
       THEN /\ result' = result
            /\ pc' = "dispatch"
            /\ calls' = r.message.tool_calls
       ELSE /\ result' = OkResult(r)
            /\ pc' = "idle"
            /\ calls' = <<>>
    /\ UNCHANGED <<tool_infos, tools, format, x, request, current, sent, hist0, args,
                   invocations,
                   streamVars>>

\* variant: a failed request is sent again
send_err_retry ==
    /\ pc = "awaiting"
    /\ sent' = Append(sent, Last(sent))
    /\ UNCHANGED <<tool_infos, tools, format, history, x, pc, request, resp, calls, current,
                   result, received, hist0, args, roundHist, roundX, invocations,
                   streamVars>>

\* send_chat_messages_with_history fails: `?` returns the transport error
send_err ==
    /\ pc = "awaiting"
    /\ result' = ErrResult(TransportError)
    /\ pc' = "idle"
    /\ UNCHANGED <<tool_infos, tools, format, history, x, request, resp, calls, current,
                   sent, received, hist0, args, roundHist, roundX, invocations,
                   streamVars>>

\* next iteration of `for call in resp.message.tool_calls`: look the tool up
tool_lookup ==
    /\ pc = "dispatch"
    /\ calls # <<>>
    /\ IF registered(next_call(calls))
       THEN /\ current' = next_call(calls)
            /\ calls' = Tail(calls)
            /\ pc' = "tool"
            /\ result' = result
       ELSE /\ result' = ErrResult(UnknownToolName)
            /\ pc' = "idle"
            /\ UNCHANGED <<calls, current>>
    /\ UNCHANGED <<tool_infos, tools, format, history, x, request, resp, sent, received,
                   hist0, args, roundHist, roundX, invocations,
                   streamVars>>

\* tool.call(..) returns Ok(resp): push ChatMessage::tool(resp)
tool_ok ==
    /\ pc = "tool"
    /\ x' = ToolEffect(current, x)
    /\ history' = push_tool(history, ToolOutput(current, x))
    /\ pc' = "dispatch"
    /\ UNCHANGED <<tool_infos, tools, format, request, resp, calls, current, result, sent,
                   received, hist0, args, roundHist, roundX, invocations,
                   streamVars>>

\* variant: a failing tool rolls the history back to the start of the invocation
tool_err_rollback ==
    /\ pc = "tool"
    /\ result' = ErrResult(InternalToolError(ToolFailure(current)))
    /\ pc' = "idle"
    /\ history' = hist0
    /\ UNCHANGED <<tool_infos, tools, format, x, request, resp, calls, current,
                   sent, received, hist0, args, roundHist, roundX, invocations,
                   streamVars>>

\* tool.call(..) returns Err(e): map_err(InternalToolError)?
tool_err ==
    /\ pc = "tool"
    /\ result' = ErrResult(InternalToolError(ToolFailure(current)))
    /\ pc' = "idle"
    /\ UNCHANGED <<tool_infos, tools, format, history, x, request, resp, calls, current,
                   sent, received, hist0, args, roundHist, roundX, invocations,
                   streamVars>>

\* variant: a cap of one round; the response with tool calls is returned
recurse_capped ==
    /\ pc = "dispatch"
    /\ calls = <<>>
    /\ result' = OkResult(resp)
    /\ pc' = "idle"
    /\ UNCHANGED <<tool_infos, tools, format, history, x, request, resp, calls, current,
                   sent, received, hist0, args, roundHist, roundX, invocations,
                   streamVars>>

\* variant: the next round is started while calls of this round are pending
recurse_early ==
    /\ pc = "dispatch"
    /\ request' = generate_request(<<>>)
    /\ sent' = Append(sent, LogEntry(request'))
    /\ pc' = "awaiting"
    /\ UNCHANGED <<tool_infos, tools, format, history, x, resp, calls, current, result,
                   received, hist0, args, roundHist, roundX, invocations,
                   streamVars>>

\* Box::pin(self.chat(vec![])).await: the nested invocation's result is the
\* result of the outer one, so the recursion is the next round
recurse ==
    /\ pc = "dispatch"
    /\ calls = <<>>
    /\ request' = generate_request(<<>>)
    /\ sent' = Append(sent, LogEntry(request'))
    /\ pc' = "awaiting"
    /\ UNCHANGED <<tool_infos, tools, format, history, x, resp, calls, current, result,
                   received, hist0, args, roundHist, roundX, invocations,
                   streamVars>>

\* ----------------------------------------------------------- chat_stream
RECURSIVE Content(_)
Content(fs) == IF fs = <<>> THEN "" ELSE fs[1].message.content \o Content(Tail(fs))
RECURSIVE ToolCalls(_)
ToolCalls(fs) == IF fs = <<>> THEN <<>> ELSE fs[1].message.tool_calls \o ToolCalls(Tail(fs))

\* the assistant message the streaming transport appends once a response is complete
Assembled(fs) == AssistantMsg(Content(fs), ToolCalls(fs))

\* the streaming transport's appends to the shared history: the request's
\* messages when the request is sent, the assembled reply with the last fragment
stream_request_sent(h, req) == h \o req.messages
stream_response_complete(h, fs) == Append(h, Assembled(fs))

\* the ways the transport may deliver the message m as fragments
Fragmentations(m) ==
    {fs \in SeqsUpTo(Fragments, MaxFrags) \ {<<>>} :
        /\ \A i \in 1..Len(fs) : fs[i].done <=> i = Len(fs)
        /\ Assembled(fs) = m}

\* a streamed run that repeats a buffered one gets the same answers: the
\* fragments fs of the k-th response begin a fragmentation of the k-th answer
Scripted(k, fs) ==
    IF buffered.result.kind = "None" THEN TRUE
    ELSE IF k > Len(buffered.script) THEN FALSE
    ELSE \E whole \in Fragmentations(buffered.script[k].message) :
            /\ Len(fs) <= Len(whole)
            /\ SubSeq(whole, 1, Len(fs)) = fs

\* the coordinator is put back as it was before its first chat invocation,
\* whose outcome and answers are kept, to be consumed by chat_stream with
\* the same messages and the same answers
rewind ==
    /\ pc = "idle"
    /\ invocations = 1
    /\ result.kind # "None"
    /\ buffered' = [result |-> result, history |-> history, x |-> x, script |-> received]
    /\ history' = hist0
    /\ x' = InitialX
    /\ pc' = "rewound"
    /\ UNCHANGED <<tool_infos, tools, format, request, resp, calls, current, result, sent,
                   received, hist0, args, roundHist, roundX, invocations,
                   shared, lock, frags, tool_calls, item, out, produced, consumer>>

\* chat_stream(messages): build the first request, clone the history into
\* the Arc<Mutex<_>> and hand both to the streaming transport
chat_stream(messages) ==
    /\ pc \in {"idle", "rewound"}
    /\ pc = "rewound" => messages = args
    /\ invocations' = invocations + 1
    /\ request' = generate_request(messages)
    /\ shared' = history
    /\ sent' = <<[req |-> request', hist |-> history, shared |-> shared']>>
    /\ received' = <<>>
    /\ hist0' = history
    /\ args' = messages
    /\ result' = NoResult
    /\ pc' = "s_first"
    /\ resp' = NoResponse
    /\ calls' = <<>>
    /\ current' = ""
    /\ roundHist' = history
    /\ roundX' = x
    /\ UNCHANGED <<tool_infos, tools, format, history, x, lock, frags, tool_calls, item,
                   out, produced,
                   consumer, buffered>>

\* send_chat_messages_with_history_stream_tokio returns a fragment stream:
\* the transport appends the request's messages to the shared history
stream_send_ok ==
    /\ pc \in {"s_first", "s_follow"}
    /\ lock = "free"
    /\ shared' = stream_request_sent(shared, request)
    /\ frags' = <<>>
    /\ tool_calls' = <<>>
    /\ pc' = "s_pull"
    /\ UNCHANGED <<tool_infos, tools, format, history, x, request, resp, calls, current,
                   result, sent, received, hist0, args, roundHist, roundX, invocations,
                   lock, item, out, produced,
                   consumer, buffered>>

\* the transport fails: `?` in chat_stream returns the error for the first
\* request; inside try_stream! it yields the error and ends the sequence
stream_send_err ==
    /\ pc \in {"s_first", "s_follow"}
    /\ IF pc = "s_first"
       THEN /\ result' = ErrResult(TransportError)
            /\ out' = out
       ELSE /\ out' = Append(out, ErrResult(TransportError))
            /\ result' = result
    /\ pc' = "s_end"
    /\ UNCHANGED <<tool_infos, tools, format, history, x, request, resp, calls, current,
                   sent, received, hist0, args, roundHist, roundX, invocations,
                   shared, lock, frags, tool_calls, item, produced,
                   consumer, buffered>>

StreamOpen == IF frags = <<>> THEN TRUE ELSE ~Last(frags).done

\* stream.next() returns Some(Ok(i)): extend the accumulator; the transport
\* appends the assembled assistant message when the fragment is the last one
stream_next(f) ==
    /\ pc = "s_pull"
    /\ StreamOpen
    /\ Len(frags) + 1 = MaxFrags => f.done
    /\ Len(tool_calls) + Len(f.message.tool_calls) <= MaxCalls
    /\ Len(sent) = MaxRounds => f.message.tool_calls = <<>>
    /\ Scripted(Len(received) + 1, Append(frags, f))
    /\ frags' = Append(frags, f)
    /\ produced' = Append(produced, f)
    /\ IF f.done
       THEN /\ lock = "free"
            /\ shared' = stream_response_complete(shared, frags')
            /\ received' = Append(received, [message |-> Assembled(frags')])
            /\ roundHist' = shared'
       ELSE UNCHANGED <<shared, received, roundHist>>
    /\ tool_calls' = extend_from_slice(tool_calls, f)
    /\ item' = f
    /\ pc' = "s_yield"
    /\ UNCHANGED <<tool_infos, tools, format, history, x, request, resp, calls, current,
                   result, sent, hist0, args, roundX, invocations, lock, out,
                   consumer, buffered>>

\* stream.next() returns Some(Err(_)): i.unwrap() panics
stream_next_err ==
    /\ pc = "s_pull"
    /\ StreamOpen
    /\ pc' = "panicked"
    /\ UNCHANGED <<tool_infos, tools, format, history, x, request, resp, calls, current,
                   result, sent, received, hist0, args, roundHist, roundX, invocations,
                   streamVars>>

\* yield i.unwrap(): the consumer receives the fragment
stream_yield ==
    /\ pc = "s_yield"
    /\ out' = yield(out, item)
    /\ pc' = "s_pull"
    /\ UNCHANGED <<tool_infos, tools, format, history, x, request, resp, calls, current,
                   result, sent, received, hist0, args, roundHist, roundX, invocations,
                   shared, lock, frags, tool_calls, item, produced,
                   consumer, buffered>>

\* stream.next() returns None: keep_going = !tool_calls.is_empty(); without
\* tool calls resp stays None and the outer loop ends
stream_exhausted ==
    /\ pc = "s_pull"
    /\ ~StreamOpen
    /\ calls' = tool_calls
    /\ roundX' = x
    /\ pc' = IF keep_going(tool_calls) THEN "s_dispatch" ELSE "s_end"
    /\ UNCHANGED <<tool_infos, tools, format, history, x, request, resp, current,
                   result, sent, received, hist0, args, roundHist, invocations,
                   streamVars>>

\* next iteration of `for call in tool_calls`: an unknown name panics
stream_tool_lookup ==
    /\ pc = "s_dispatch"
    /\ calls # <<>>
    /\ IF registered(next_call(calls))
       THEN /\ current' = next_call(calls)
            /\ calls' = Tail(calls)
            /\ pc' = "s_tool"
       ELSE /\ pc' = "panicked"
            /\ UNCHANGED <<calls, current>>
    /\ UNCHANGED <<tool_infos, tools, format, history, x, request, resp, result, sent,
                   received, hist0, args, roundHist, roundX, invocations, streamVars>>

\* tool.call(..).await.unwrap() on Ok(resp): go on to history.lock().await
stream_tool_ok ==
    /\ pc = "s_tool"
    /\ x' = ToolEffect(current, x)
    /\ resp' = [message |-> ToolMsg(ToolOutput(current, x))]
    /\ pc' = "s_lock"
    /\ UNCHANGED <<tool_infos, tools, format, history, request, calls, current, result,
                   sent, received, hist0, args, roundHist, roundX, invocations,
                   streamVars>>

\* variant: the tool failure is yielded as a failure item and the sequence ends
stream_tool_err_yielded ==
    /\ pc = "s_tool"
    /\ out' = Append(out, ErrResult(InternalToolError(ToolFailure(current))))
    /\ pc' = "s_end"
    /\ UNCHANGED <<tool_infos, tools, format, history, x, request, resp, calls, current,
                   result, sent, received, hist0, args, roundHist, roundX, invocations,
                   shared, lock, frags, tool_calls, item, produced, consumer, buffered>>

\* tool.call(..).await.unwrap() on Err(_): panic
stream_tool_err ==
    /\ pc = "s_tool"
    /\ pc' = "panicked"
    /\ UNCHANGED <<tool_infos, tools, format, history, x, request, resp, calls, current,
                   result, sent, received, hist0, args, roundHist, roundX, invocations,
                   streamVars>>

\* history.lock().await: the mutex is acquired
stream_lock ==
    /\ pc = "s_lock"
    /\ lock = "free"
    /\ lock' = "orchestrator"
    /\ pc' = "s_push"
    /\ UNCHANGED <<tool_infos, tools, format, history, x, request, resp, calls, current,
                   result, sent, received, hist0, args, roundHist, roundX, invocations,
                   shared, frags, tool_calls, item, out, produced,
                   consumer, buffered>>

\* variant: the guard outlives the statement and is held into the next step
stream_push_held ==
    /\ pc = "s_push"
    /\ shared' = push_tool(shared, resp.message.content)
    /\ pc' = "s_dispatch"
    /\ UNCHANGED <<tool_infos, tools, format, history, x, request, resp, calls, current,
                   result, sent, received, hist0, args, roundHist, roundX, invocations,
                   lock, frags, tool_calls, item, out, produced,
                   consumer, buffered>>

\* .push(ChatMessage::tool(resp)); the guard is dropped at the end of the statement
stream_push ==
    /\ pc = "s_push"
    /\ shared' = push_tool(shared, resp.message.content)
    /\ lock' = "free"
    /\ pc' = "s_dispatch"
    /\ UNCHANGED <<tool_infos, tools, format, history, x, request, resp, calls, current,
                   result, sent, received, hist0, args, roundHist, roundX, invocations,
                   frags, tool_calls, item, out, produced,
                   consumer, buffered>>

\* if keep_going: build the follow-up request with Vec::new() and send it
stream_follow ==
    /\ pc = "s_dispatch"
    /\ calls = <<>>
    /\ request' = generate_request(<<>>)
    /\ sent' = Append(sent, LogEntry(request'))
    /\ pc' = "s_follow"
    /\ UNCHANGED <<tool_infos, tools, format, history, x, resp, calls, current, result,
                   received, hist0, args, roundHist, roundX, invocations, streamVars>>

\* variant: the loop is detached from the output sequence and keeps running
stream_drop_detached ==
    /\ pc \in {"s_pull", "s_yield", "s_tool", "s_lock", "s_follow"}
    /\ consumer = "polling"
    /\ consumer' = "gone"
    /\ UNCHANGED <<tool_infos, tools, format, history, x, pc, request, resp, calls, current,
                   result, sent, received, hist0, args, roundHist, roundX, invocations,
                   shared, lock, frags, tool_calls, item, out, produced, buffered>>

\* the consumer drops the output sequence at one of the points where the
\* generator is suspended (the awaits of lines 206, 226, 233, 241 and the
\* yield of line 210); a generator that is not polled does not advance
stream_drop ==
    /\ pc \in {"s_pull", "s_yield", "s_tool", "s_lock", "s_follow"}
    /\ pc' = "dropped"
    /\ consumer' = "gone"
    /\ UNCHANGED <<tool_infos, tools, format, history, x, request, resp, calls, current,
                   result, sent, received, hist0, args, roundHist, roundX, invocations,
                   shared, lock, frags, tool_calls, item, out, produced, buffered>>

Configure ==
    \/ \E name \in ToolNames : add_tool(name)
    \/ format_builder

\* a coordinator used in buffered mode
Next ==
    \/ Configure
    \/ \E messages \in CallerMessages : chat(messages)
    \/ \E r \in ServiceReplies : send_ok(r)
    \/ send_err
    \/ tool_lookup
    \/ tool_ok
    \/ tool_err
    \/ recurse

Spec == Init /\ [][Next]_vars

\* a coordinator consumed by chat_stream
NextStream ==
    \/ Configure
    \/ \E messages \in CallerMessages : chat_stream(messages)
    \/ stream_send_ok
    \/ stream_send_err
    \/ \E f \in Fragments : stream_next(f)
    \/ stream_next_err
    \/ stream_yield
    \/ stream_exhausted
    \/ stream_tool_lookup
    \/ stream_tool_ok
    \/ stream_tool_err
    \/ stream_lock
    \/ stream_push
    \/ stream_follow
    \/ stream_drop

SpecStream == Init /\ [][NextStream]_vars

\* a buffered run followed by a streamed run of the same conversation
NextPair ==
    \/ Next
    \/ rewind
    \/ \E messages \in CallerMessages : pc = "rewound" /\ chat_stream(messages)
    \/ stream_send_ok
    \/ stream_send_err
    \/ \E f \in Fragments : stream_next(f)
    \/ stream_next_err
    \/ stream_yield
    \/ stream_exhausted
    \/ stream_tool_lookup
    \/ stream_tool_ok
    \/ stream_tool_err
    \/ stream_lock
    \/ stream_push
    \/ stream_follow
    \/ stream_drop

SpecPair == Init /\ [][NextPair]_vars

\* a coordinator constructed with an empty history, used in buffered mode
InitEmpty == Init /\ history = <<>>
SpecFromEmpty == InitEmpty /\ [][Next]_vars

\* the transport and the tools always return: a running invocation takes
\* its next step
ChatStep ==
    \/ \E r \in ServiceReplies : send_ok(r)
    \/ send_err
    \/ tool_lookup
    \/ tool_ok
    \/ tool_err
    \/ recurse

SpecReturning == InitEmpty /\ [][Next]_vars /\ WF_vars(ChatStep)

\* ------------------------------------------------------------ properties
IsPrefix(p, q) == Len(p) <= Len(q) /\ SubSeq(q, 1, Len(p)) = p
EndsInTool(h) == IF h = <<>> THEN FALSE ELSE Last(h).role = "Tool"

\* Tool messages pushed by running the calls cs one after the other from value v
RECURSIVE ToolRun(_, _)
ToolRun(cs, v) ==
    IF cs = <<>> THEN <<>>
    ELSE <<ToolMsg(ToolOutput(cs[1], v))>> \o ToolRun(Tail(cs), ToolEffect(cs[1], v))

\* tail is, for each response of rs in turn, its message followed by one
\* Tool message per tool call of that response
RECURSIVE Conversation(_, _)
Conversation(tail, rs) ==
    IF rs = <<>> THEN tail = <<>>
    ELSE LET n == Len(rs[1].message.tool_calls)
         IN  /\ Len(tail) >= n + 1
             /\ tail[1] = rs[1].message
             /\ \A i \in 2..(n + 1) : tail[i].role = "Tool"
             /\ Conversation(SubSeq(tail, n + 2, Len(tail)), Tail(rs))

\* C1: every request built by generate_request carries the format iff a
\* format is configured and either the descriptor list is empty or the
\* coordinator's history, as it was when the request was built, ends in a
\* Tool message; the messages of the request play no part.
C1_FormatGate ==
    \A i \in 1..Len(sent) :
        sent[i].req.format <=>
            /\ format
            /\ tool_infos = <<>> \/ EndsInTool(sent[i].hist)

\* both branches with tools registered: a first request carrying a Tool
\* message built on a history not ending in Tool has no format, the
\* follow-up built on a history ending in Tool has it
C1_Witness ==
    /\ format
    /\ tool_infos # <<>>
    /\ Len(sent) = 2
    /\ sent[1].req.messages = <<ToolMsg("note")>>
    /\ ~EndsInTool(sent[1].hist)
    /\ ~sent[1].req.format
    /\ EndsInTool(sent[2].hist)
    /\ sent[2].req.format

\* C2: chat returns Ok exactly when the response received last has no tool
\* calls; the returned response is that response, no tool was dispatched for
\* it, no Tool message follows the assistant message and no request follows.
C2_EmptyToolCallsEndLoop ==
    /\ result.kind = "Ok" =>
          /\ pc = "idle"
          /\ received # <<>>
          /\ result.resp = Last(received)
          /\ result.resp.message.tool_calls = <<>>
          /\ calls = <<>>
          /\ x = roundX
          /\ history = roundHist
          /\ Last(history) = result.resp.message
          /\ Len(sent) = Len(received)
    /\ (IF received = <<>> THEN FALSE ELSE Last(received).message.tool_calls = <<>>)
          => result.kind = "Ok"

C2_Witness ==
    /\ result.kind = "Ok"
    /\ Len(received) = 2
    /\ received[1].message.tool_calls # <<>>

\* C3: after a successful chat the history is the initial history, the
\* caller's messages, then for each response its assistant message followed
\* by one Tool message per tool call, the last response closing the history.
C3_FinalHistoryShape ==
    result.kind = "Ok" =>
        LET pre == hist0 \o args
        IN  /\ IsPrefix(pre, history)
            /\ Conversation(SubSeq(history, Len(pre) + 1, Len(history)), received)

\* the lookup scenario: User, Assistant(tool_call), Tool("42"), Assistant("x is 42")
C3_Witness ==
    /\ result.kind = "Ok"
    /\ hist0 = <<>>
    /\ result.resp.message.content = "x is 42"
    /\ history = <<UserMsg, AssistantMsg("", <<"lookup">>), ToolMsg("42"),
                   AssistantMsg("x is 42", <<>>)>>

C5_NoToolMessageOfRound ==
    result = ErrResult(UnknownToolName) => history = roundHist

\* C5 amended: the call that dispatch reaches next and that is not
\* registered ends chat with UnknownToolName; the history is then the
\* round's assistant message followed by the Tool messages of the calls
\* that precede the unknown one, and no unregistered tool is ever run.
C5_StateAfterUnknown ==
    /\ pc = "tool" => current \in tools
    /\ result = ErrResult(UnknownToolName) =>
          LET all == resp.message.tool_calls
              k == Len(all) - Len(calls)
          IN  /\ pc = "idle"
              /\ calls # <<>>
              /\ calls = SubSeq(all, k + 1, Len(all))
              /\ Head(calls) \notin tools
              /\ history = roundHist \o ToolRun(SubSeq(all, 1, k), roundX)
              /\ \A i \in 1..Len(history) \ 1..Len(roundHist) : history[i].role = "Tool"
              /\ Len(sent) = Len(received)

C5_UnknownStep ==
    (pc = "dispatch" /\ calls # <<>> /\ Head(calls) \notin tools)
        => (result' = ErrResult(UnknownToolName) /\ history' = history /\ pc' = "idle")

C5_UnknownToolName == []C5_StateAfterUnknown /\ [][C5_UnknownStep]_vars

\* the unknown call comes second, after a registered call that succeeded
C5_Witness ==
    /\ result = ErrResult(UnknownToolName)
    /\ resp.message.tool_calls = <<"lookup", "update">>
    /\ calls = <<"update">>
    /\ history = roundHist \o <<ToolMsg("42")>>

\* C6: a failing tool ends chat with InternalToolError wrapping the tool's
\* own error; the history holds the Tool messages of the calls before the
\* failing one and none for the failing call.
C6_ToolFailure ==
    (IF result.kind = "Err" THEN result.error.kind = "InternalToolError" ELSE FALSE) =>
        LET all == resp.message.tool_calls
            started == Len(all) - Len(calls)
        IN  /\ pc = "idle"
            /\ started >= 1
            /\ current = all[started]
            /\ result.error.inner = ToolFailure(current)
            /\ history = roundHist \o ToolRun(SubSeq(all, 1, started - 1), roundX)
            /\ Len(sent) = Len(received)

\* the second call of a response fails after the first has succeeded
C6_Witness ==
    /\ result = ErrResult(InternalToolError("lookup failed"))
    /\ resp.message.tool_calls = <<"update", "lookup">>
    /\ calls = <<>>
    /\ history = roundHist \o <<ToolMsg("ok")>>

\* C7: every step of every chat invocation, failing or not, leaves the
\* previous history as a prefix of the new one.
C7_HistoryOnlyGrows == [][IsPrefix(history, history')]_vars

\* a second invocation starts from what a failed first one had appended
C7_Witness ==
    /\ invocations = 2
    /\ pc = "awaiting"
    /\ Len(sent) = 1
    /\ Len(hist0) > 3
    /\ EndsInTool(hist0)
    /\ history = hist0

\* ------------------------------------------------ properties, chat_stream
IsFailure(e) == "kind" \in DOMAIN e
Yielded == IF out = <<>> THEN out
           ELSE IF IsFailure(Last(out)) THEN SubSeq(out, 1, Len(out) - 1)
           ELSE out
CallRounds(rs) == Len(SelectSeq(rs, has_tool_calls))

\* C8: the fragments the consumer has got are the fragments the transport
\* has produced over all rounds, in order; the only fragment ever missing is
\* the one being yielded, so every fragment is out before the next one is
\* pulled and before any tool of the round is dispatched.
C8_FragmentsForwarded ==
    /\ pc = "s_yield" => produced = Append(out, item)
    /\ pc = "dropped" => IsPrefix(out, produced) /\ Len(produced) <= Len(out) + 1
    /\ pc \notin {"s_yield", "dropped"} => produced = Yielded

\* two rounds, the first fragment of which carried a tool call, all forwarded
C8_Witness ==
    /\ pc = "s_end"
    /\ Len(sent) = 2
    /\ Len(out) = 4
    /\ out = produced
    /\ out[1].message.tool_calls # <<>>

\* C9: a follow-up request is in flight only when the fragment sequence is
\* exhausted, at least one tool call was accumulated and every accumulated
\* call has its Tool message in the shared history; it is the only request
\* of that round and carries no new message; dispatch is entered only with
\* tool calls, and a sequence that ends without failure ends on a round
\* without tool calls, with one request per round.
C9_FollowUp ==
    /\ Len(sent) <= CallRounds(received) + 1
    /\ pc = "s_follow" =>
          /\ ~StreamOpen
          /\ tool_calls # <<>>
          /\ calls = <<>>
          /\ tool_calls = Last(received).message.tool_calls
          /\ shared = roundHist \o ToolRun(tool_calls, roundX)
          /\ request.messages = <<>>
          /\ Len(sent) = Len(received) + 1
          /\ Len(sent) = CallRounds(received) + 1
    /\ pc \in {"s_dispatch", "s_tool", "s_lock", "s_push"} =>
          /\ tool_calls # <<>>
          /\ ~StreamOpen
          /\ Len(sent) = Len(received)
    /\ (pc = "s_end" /\ result.kind = "None" /\ out = Yielded) =>
          /\ ~has_tool_calls(Last(received))
          /\ Len(sent) = Len(received)
          /\ Len(sent) = CallRounds(received) + 1

\* the follow-up after a round that accumulated two tool calls
C9_Witness ==
    /\ pc = "s_follow"
    /\ Len(tool_calls) = 2
    /\ Len(frags) = 2
    /\ Len(sent) = 2

\* C10 as stated: with a tool registered and a format configured, the
\* follow-up request sent after a round that appended a Tool message to the
\* shared history carries the format.
C10_FollowUpHasFormat ==
    (pc = "s_follow" /\ format /\ tool_infos # <<>> /\ EndsInTool(shared))
        => request.format


\* C11: once the consumer has dropped the output sequence the loop is at
\* no position any more, the history mutex is free, and no step dispatches a
\* tool, issues a request or appends a message.
C11_StateAfterDrop ==
    consumer = "gone" => (pc = "dropped" /\ lock = "free")

C11_StepAfterDrop ==
    consumer = "gone" => UNCHANGED <<shared, history, sent, x, current, calls, lock, out>>

C11_DropStopsLoop == []C11_StateAfterDrop /\ [][C11_StepAfterDrop]_vars

\* dropped while a tool call was running, with a later call still to be dispatched
C11_Witness ==
    /\ consumer = "gone"
    /\ current # ""
    /\ calls # <<>>
    /\ Len(shared) = Len(roundHist)


\* C12: a streamed run that gets the answers of a successful buffered run
\* never has anything in its history that the buffered run has not, in the
\* same order; when it ends it has received the same answers, dispatched
\* the same tools (same Tool messages, same tool state) and the content of
\* the fragments of its last round is the content chat returned.
C12_SameRounds ==
    (IF buffered.result.kind = "Ok" THEN pc # "rewound" ELSE FALSE) =>
        /\ IsPrefix(shared, buffered.history)
        /\ (pc = "s_end" /\ result.kind = "None" /\ out = Yielded) =>
              /\ received = buffered.script
              /\ shared = buffered.history
              /\ x = buffered.x
              /\ Content(frags) = buffered.result.resp.message.content

\* two rounds: a tool round, then "x is 42" delivered as two fragments
C12_Witness ==
    /\ buffered.result.kind = "Ok"
    /\ pc = "s_end"
    /\ Len(received) = 2
    /\ Len(frags) = 2
    /\ Content(frags) = "x is 42"
    /\ shared = buffered.history
    /\ EndsInTool(SubSeq(shared, 1, Len(shared) - 1))


Streaming ==
    pc \in {"s_first", "s_follow", "s_pull", "s_yield", "s_dispatch", "s_tool", "s_lock",
            "s_push", "s_end", "panicked", "dropped"}

\* the history request i of the invocation was built on and is sent with
BuiltOn(i) == IF Streaming THEN sent[i].shared ELSE sent[i].hist

\* C13: in both modes at most one request is without its response, none is
\* while tools are dispatched, and every request after the first was built
\* when the history ended with the previous response's assistant message
\* followed by one Tool message for each of its tool calls.
C13_RoundsSequential ==
    /\ Len(sent) <= Len(received) + 1
    /\ pc \in {"dispatch", "tool", "s_dispatch", "s_tool", "s_lock", "s_push"}
          => Len(sent) = Len(received)
    /\ \A i \in 2..Len(sent) :
          LET h == BuiltOn(i)
              n == Len(received[i - 1].message.tool_calls)
          IN  /\ n >= 1
              /\ Len(h) >= n + 1
              /\ h[Len(h) - n] = received[i - 1].message
              /\ \A j \in (Len(h) - n + 1)..Len(h) : h[j].role = "Tool"

\* a streamed follow-up after two tool calls, following a buffered run
C13_Witness ==
    /\ pc = "s_follow"
    /\ buffered.result.kind = "Ok"
    /\ Len(sent) = 2
    /\ Len(received[1].message.tool_calls) = 2


\* C14 as stated: starting from an empty history, with a tool registered,
\* the first request of a chat invocation never carries the format.
C14_FirstRequestWithoutFormat ==
    (tool_infos # <<>> /\ sent # <<>>) => ~sent[1].req.format


\* value of the tools' state after running the calls cs one after the other from v
RECURSIVE ToolState(_, _)
ToolState(cs, v) == IF cs = <<>> THEN v ELSE ToolState(Tail(cs), ToolEffect(cs[1], v))

\* C15: a request is never sent twice; when chat has returned an error the
\* kind of the error tells what failed (Transport: the last request has no
\* response; UnknownToolName: the next call is not registered;
\* InternalToolError: the call taken last is registered and failed), the
\* tools' state and the Tool messages are those of the calls before the
\* failing one, and the invocation takes no further step: the next change
\* is a new invocation.
C15_StateAfterFailure ==
    /\ Len(sent) <= Len(received) + 1
    /\ result.kind = "Err" =>
          LET all == resp.message.tool_calls
              started == Len(all) - Len(calls)
              kind == result.error.kind
          IN  /\ pc = "idle"
              /\ kind \in {"Transport", "UnknownToolName", "InternalToolError"}
              /\ kind = "Transport" =>
                    /\ Len(sent) = Len(received) + 1
                    /\ history = Last(sent).hist
              /\ kind = "UnknownToolName" =>
                    /\ Len(sent) = Len(received)
                    /\ calls # <<>>
                    /\ Head(calls) \notin tools
                    /\ x = ToolState(SubSeq(all, 1, started), roundX)
                    /\ Len(history) = Len(roundHist) + started
              /\ kind = "InternalToolError" =>
                    /\ Len(sent) = Len(received)
                    /\ started >= 1
                    /\ current = all[started]
                    /\ current \in tools
                    /\ x = ToolState(SubSeq(all, 1, started - 1), roundX)
                    /\ Len(history) = Len(roundHist) + started - 1

C15_StepAfterFailure ==
    /\ result.kind = "Err" =>
          \/ UNCHANGED <<sent, received, history, x, result, pc>>
          \/ invocations' = invocations + 1
    /\ (result.kind = "None" /\ result'.kind = "Err") =>
          UNCHANGED <<sent, received, history, x, calls>>

C15_FailureAborts == []C15_StateAfterFailure /\ [][C15_StepAfterFailure]_vars

\* the first of two calls failed: the second is never invoked
C15_Witness ==
    /\ result = ErrResult(InternalToolError("update failed"))
    /\ resp.message.tool_calls = <<"update", "lookup">>
    /\ calls = <<"lookup">>
    /\ x = 42
    /\ history = roundHist


\* C16: in chat_stream the only failure item ever on the output sequence
\* is the transport failure of a follow-up request, as its last item, after
\* which the sequence has ended.  A panic puts no failure item on the
\* sequence, leaves no request in flight and, when it happened during
\* dispatch (unknown name or failing tool), leaves in the shared history the
\* Tool messages of the calls before the fatal one only; after a panic
\* nothing is dispatched, appended or requested.
C16_StateAfterPanic ==
    /\ \A i \in 1..Len(out) :
          IsFailure(out[i]) =>
              /\ i = Len(out)
              /\ out[i] = ErrResult(TransportError)
              /\ pc = "s_end"
              /\ Len(sent) >= 2
              /\ Len(sent) = Len(received) + 1
    /\ pc = "panicked" =>
          /\ out = Yielded
          /\ lock = "free"
          /\ IF StreamOpen
             THEN Len(sent) = Len(received) + 1
             ELSE LET all == tool_calls
                      started == Len(all) - Len(calls)
                  IN  /\ Len(sent) = Len(received)
                      /\ \/ /\ calls # <<>>
                            /\ Head(calls) \notin tools
                            /\ shared = roundHist \o ToolRun(SubSeq(all, 1, started), roundX)
                            /\ x = ToolState(SubSeq(all, 1, started), roundX)
                         \/ /\ started >= 1
                            /\ current = all[started]
                            /\ shared = roundHist
                                            \o ToolRun(SubSeq(all, 1, started - 1), roundX)
                            /\ x = ToolState(SubSeq(all, 1, started - 1), roundX)

C16_StepAfterPanic == pc = "panicked" => UNCHANGED vars

C16_FatalToolErrors == []C16_StateAfterPanic /\ [][C16_StepAfterPanic]_vars

\* the second of two accumulated calls is unknown: panic after one Tool message
C16_Witness ==
    /\ pc = "panicked"
    /\ tool_calls = <<"lookup", "update">>
    /\ calls = <<"update">>
    /\ "update" \notin tools
    /\ shared = roundHist \o <<ToolMsg("42")>>
    /\ Len(out) = 2


\* C17: while the fragments of a round arrive the accumulator holds the
\* tool calls of the fragments received so far, in arrival order, starting
\* empty, and no Tool message is appended; dispatch happens only on an
\* exhausted sequence and takes the accumulated calls, all of them, in order.
C17_AccumulatedCalls ==
    /\ pc \in {"s_pull", "s_yield"} =>
          /\ tool_calls = ToolCalls(frags)
          /\ shared = Last(sent).shared \o Last(sent).req.messages
                        \o (IF StreamOpen THEN <<>> ELSE <<Assembled(frags)>>)
    /\ pc \in {"s_dispatch", "s_tool", "s_lock", "s_push", "s_follow"} =>
          LET started == Len(tool_calls) - Len(calls)
              finished == IF pc \in {"s_dispatch", "s_follow"} THEN started
                          ELSE started - 1
          IN  /\ ~StreamOpen
              /\ tool_calls = ToolCalls(frags)
              /\ calls = SubSeq(tool_calls, started + 1, Len(tool_calls))
              /\ pc \notin {"s_dispatch", "s_follow"} => current = tool_calls[started]
              /\ pc = "s_follow" => started = Len(tool_calls)
              /\ IF pc = "s_follow"
                 THEN Last(sent).shared = roundHist \o ToolRun(ToolCalls(frags), roundX)
                 ELSE shared = roundHist
                                  \o ToolRun(SubSeq(tool_calls, 1, finished), roundX)

\* a tool call carried by the first, not final, fragment is dispatched
C17_Witness ==
    /\ pc = "s_tool"
    /\ Len(frags) = 2
    /\ frags[1].message.tool_calls = <<"lookup">>
    /\ frags[2].message.tool_calls = <<>>
    /\ current = "lookup"


\* C18: the requests of an invocation are one more than the responses with
\* tool calls it has dispatched completely, whatever their number; chat
\* returns Ok only on a response without tool calls; and, the service
\* answering with tool calls at most MaxRounds - 1 times in a row, an
\* invocation whose transport and tools always return does return, having
\* sent at most MaxRounds requests.
C18_RoundCount ==
    /\ pc = "awaiting" => Len(sent) = CallRounds(received) + 1
    /\ pc \in {"dispatch", "tool"} => Len(sent) = CallRounds(received)
    /\ pc \in {"dispatch", "tool", "awaiting"} => result.kind = "None"
    /\ result.kind = "Ok" =>
          /\ Len(sent) = CallRounds(received) + 1
          /\ ~has_tool_calls(Last(received))
    /\ Len(sent) <= MaxRounds

C18_Returns == (pc = "awaiting") ~> (pc = "idle" /\ result.kind # "None")

C19_DescriptorsMatchRegistry ==
    /\ {tool_infos[i] : i \in 1..Len(tool_infos)} = tools
    /\ Len(tool_infos) = Cardinality(tools)
    /\ \A i, j \in 1..Len(tool_infos) : tool_infos[i] = tool_infos[j] => i = j

\* C20: the orchestrator holds the history lock only for the push of one
\* Tool message: it is never held while a fragment, a tool result or a
\* follow-up request is awaited or a fragment is being yielded; the lock is
\* free whenever the orchestrator asks for it; and the shared history changes
\* only by the orchestrator's push of one Tool message under the lock, which
\* is released by the same step, by an append of the producer while the lock
\* is free, or by the creation of the shared copy.
C20_LockHeldOnlyToPush ==
    /\ lock = "orchestrator" => pc = "s_push"
    /\ pc = "s_lock" => lock = "free"

C20_AppendStep ==
    shared' # shared =>
        \/ /\ pc = "s_push" /\ lock = "orchestrator" /\ lock' = "free"
           /\ Len(shared') = Len(shared) + 1
           /\ IsPrefix(shared, shared')
           /\ EndsInTool(shared')
        \/ /\ pc \in {"s_first", "s_follow", "s_pull"}
           /\ lock = "free" /\ lock' = "free"
           /\ IsPrefix(shared, shared')
        \/ /\ pc \in {"idle", "rewound"}
           /\ lock = "free" /\ lock' = "free"
           /\ shared' = history

TypeOK ==
    /\ pc \in {"idle", "awaiting", "dispatch", "tool", "s_first", "s_follow", "s_pull",
              "s_yield", "s_dispatch", "s_tool", "s_lock", "s_push", "s_end", "panicked",
              "dropped", "rewound"}
    /\ lock \in {"free", "orchestrator"}
====
